---------------------------- MODULE Spec2Model ----------------------------
(***************************************************************************)
(* A model of pycoordinator: the Coordinator (step registry, verification, *)
(* the polling scheduler of run), Step.execute (argument merging and       *)
(* dynamic type validation) and the adjacency structure of Graph.          *)
(*                                                                         *)
(* Python dicts are modelled as sequences of <<key, value>> pairs with     *)
(* unique keys, so that insertion order (which decides iteration order and *)
(* hence which failure is met first) is kept.                              *)
(*                                                                         *)
(* A run is a coroutine: everything between two awaits is one atomic       *)
(* action.  RunStart is the segment from the call up to the first          *)
(* `await self.sleep()`, Pass is one further iteration of the inner loop.  *)
(* Step tasks created by launch execute between those segments (TaskRun).  *)
(***************************************************************************)
EXTENDS Integers, Sequences, FiniteSets, TLC

VARIABLES steps, dag, verified, run, task, last

vars == <<steps, dag, verified, run, task, last>>

-----------------------------------------------------------------------------
(* Bounds *)

\* input payloads and integer run parameters range over 0..MaxPayload
MaxPayload == 0
\* a Graph that is edited on its own holds at most MaxEdges successor entries
MaxEdges == 3
\* the environment registers at most MaxSteps steps at a time
MaxSteps == 3
\* number of run invocations that may be in flight at once
MaxRuns == 2

-----------------------------------------------------------------------------
(* Names *)

Root == "_source"
PyNone == "<None>"
Gate == PyNone
StepNames == {"t0", "t1", "t2"}
\* the step names of test_sum_ok, in the order they are added
ChainNames == <<"t0", "t1", "t2", "t3", "t4">>
\* every name a task may carry
TaskNames == StepNames \cup {ChainNames[i] : i \in 1..Len(ChainNames)}
RunIds == 1..MaxRuns

-----------------------------------------------------------------------------
(* Runtime values: a type tag and an integer.  A str value spells the      *)
(* decimal numeral of v.                                                   *)

IntV(n) == [t |-> "int", v |-> n]
StrV(n) == [t |-> "str", v |-> n]
NoneV == [t |-> "none", v |-> 0]
TypeOf(x) == x.t

-----------------------------------------------------------------------------
(* Ordered dicts *)

DictKeys(d) == {d[i][1] : i \in 1..Len(d)}
DictHas(d, k) == \E i \in 1..Len(d) : d[i][1] = k
DictGet(d, k) == d[CHOOSE i \in 1..Len(d) : d[i][1] = k][2]
DictSet(d, k, x) ==
    IF DictHas(d, k)
    THEN [i \in 1..Len(d) |-> IF d[i][1] = k THEN <<k, x>> ELSE d[i]]
    ELSE Append(d, <<k, x>>)
DictPop(d, k) == SelectSeq(d, LAMBDA e : e[1] # k)
KeySeq(d) == [i \in 1..Len(d) |-> d[i][1]]

SeqHas(s, x) == \E i \in 1..Len(s) : s[i] = x
\* list.remove(x): drops the first occurrence only
RemoveFirst(s, x) ==
    IF ~SeqHas(s, x) THEN s
    ELSE LET j == CHOOSE i \in 1..Len(s) :
                     s[i] = x /\ \A h \in 1..(i-1) : s[h] # x
         IN  SubSeq(s, 1, j-1) \o SubSeq(s, j+1, Len(s))

-----------------------------------------------------------------------------
(* Executors.  A declared type is [union, alts]: union is TRUE when the    *)
(* annotation carries __args__ (Union/Optional).                           *)

Plain(ty) == [union |-> FALSE, alts |-> {ty}]
Opt(ty) == [union |-> TRUE, alts |-> {ty, "none"}]

Funcs == {"f_add", "f_int_to_int", "f_aio_http", "f_one"}

\* Step.consumes(): the annotations of the executor, return excluded
consumes(f) ==
    CASE f = "f_add"        -> << <<"i", Plain("int")>>, <<"a", Opt("int")>> >>
      [] f = "f_int_to_int" -> << <<"msg", Plain("int")>> >>
      [] f = "f_aio_http"   -> << <<"msg", Plain("int")>> >>
      [] f = "f_one"        -> << <<"a", Opt("int")>> >>

Ok(x) == [ok |-> TRUE, val |-> x, err |-> "none"]
Fail(e) == [ok |-> FALSE, val |-> NoneV, err |-> e]

\* self.func(**kwargs): the executors of the test-suite, and f_one, an
\* executor whose only parameter is optional (a: Optional[int] = 1)
CallFunc(f, kw) ==
    CASE f = "f_add" ->
            LET a == IF DictHas(kw, "a") THEN DictGet(kw, "a") ELSE IntV(1)
            IN  IF TypeOf(a) = "none" THEN Fail("ExecutorFailure")
                ELSE Ok(IntV(DictGet(kw, "i").v + a.v))
      [] f = "f_int_to_int" -> Ok(DictGet(kw, "msg"))
      [] f = "f_aio_http" -> Ok(NoneV)
      [] f = "f_one" ->
            IF DictHas(kw, "a") THEN Ok(DictGet(kw, "a")) ELSE Ok(IntV(1))

-----------------------------------------------------------------------------
(* Inputs: the steps a caller may register, payloads and run parameters *)

MkStep(n, f, d) == [name |-> n, func |-> f, depends_on |-> d]

StepCatalog ==
    { MkStep("t0", "f_add", << <<Root, "i">> >>),
      MkStep("t0", "f_one", << >>),
      MkStep("t1", "f_add", << <<"t0", "i">> >>),
      MkStep("t1", "f_int_to_int", << <<"t0", "msg">>, <<"t2", "msg">> >>),
      MkStep("t1", "f_aio_http", << <<Root, "msg">> >>),
      MkStep("t1", "f_add", << <<"t0", Gate>> >>),
      MkStep("t2", "f_int_to_int", << <<"t1", "msg">> >>),
      MkStep("t2", "f_int_to_int", << <<"t0", "msg">>, <<"t1", Gate>> >>),
      MkStep("t2", "f_int_to_int", << <<"t1", "msg">>, <<"t0", "msg">> >>),
      MkStep("t2", "f_add", << <<"t0", "zz">>, <<Root, "i">> >>),
      MkStep("t2", "f_add", << <<"t0", "zz">> >>) }

\* the steps registered and removed while the registry is being edited
EditCatalog ==
    { MkStep("t0", "f_add", << <<Root, "i">> >>),
      MkStep("t0", "f_one", << >>),
      MkStep("t1", "f_add", << <<"t0", "i">> >>),
      MkStep("t1", "f_int_to_int", << <<"t0", "msg">>, <<"t2", "msg">> >>),
      MkStep("t2", "f_int_to_int", << <<"t1", "msg">> >>) }

Payloads == {IntV(n) : n \in 0..MaxPayload} \cup {StrV(0)}

ParamChoices ==
    { << >>,
      << <<"a", IntV(2)>> >>,
      << <<"a", StrV(1)>> >>,
      << <<"i", IntV(7)>> >>,
      << <<"t0", IntV(0)>> >>,
      << <<"q", IntV(0)>> >> }

-----------------------------------------------------------------------------
(* Graph: G is the adjacency dict (node -> list of successors), cc the     *)
(* cached component list (valid = FALSE stands for None).                  *)

NoCC == [valid |-> FALSE, comps |-> << >>]

\* Graph.__init__ with no nodes and no edges
EmptyGraph == [G |-> << >>, cc |-> NoCC]

\* Graph.add(u, v): add a node (v = PyNone) or an edge
GraphAdd(g, u, v) ==
    IF u = PyNone THEN g
    ELSE LET G1 == IF DictHas(g.G, u) THEN g.G ELSE Append(g.G, <<u, << >> >>)
             G2 == IF DictHas(G1, v) THEN G1 ELSE Append(G1, <<v, << >> >>)
         IN  IF v = PyNone
             THEN [G |-> G1, cc |-> NoCC]
             ELSE [G |-> DictSet(G2, u, Append(DictGet(G2, u), v)), cc |-> NoCC]

\* Graph.remove(u, v): remove a node (v = PyNone) or an edge
GraphRemove(g, u, v) ==
    IF ~DictHas(g.G, u) THEN g
    ELSE IF v # PyNone
         THEN [G |-> DictSet(g.G, u, RemoveFirst(DictGet(g.G, u), v)), cc |-> NoCC]
         ELSE LET G1 == DictPop(g.G, u)
              IN  [G |-> [i \in 1..Len(G1) |-> <<G1[i][1], RemoveFirst(G1[i][2], u)>>],
                   cc |-> NoCC]

\* Graph.nodes()
GraphNodes(g) == DictKeys(g.G)

\* Graph.edges()
GraphEdges(g) ==
    {e \in GraphNodes(g) \X GraphNodes(g) : SeqHas(DictGet(g.G, e[1]), e[2])}

\* Graph.is_edge(u, v)
is_edge(g, u, v) ==
    /\ u # PyNone /\ v # PyNone
    /\ DictHas(g.G, u) /\ DictHas(g.G, v)
    /\ SeqHas(DictGet(g.G, u), v)

-----------------------------------------------------------------------------
(* Graph.scc: Tarjan's algorithm.  The search state is [t, low, disc, mem,  *)
(* st, cc, err]; low, disc and mem are dicts over the nodes, so reading     *)
(* them at a successor that is not a node raises KeyError.  self.cc is      *)
(* assigned before the search starts and appended to in place, so a search  *)
(* that raises leaves the components found so far in the cache.             *)

Min(a, b) == IF a < b THEN a ELSE b

\* the position of the last occurrence of u in the stack
LastAt(st, u) == CHOOSE i \in 1..Len(st) : st[i] = u /\ \A j \in (i+1)..Len(st) : st[j] # u

\* `while w != u: w = st.pop(); comp.append(w); mem[w] = False`
PopComponent(sr, u) ==
    LET k == LastAt(sr.st, u)
        n == Len(sr.st)
        comp == [i \in 1..(n - k + 1) |-> sr.st[n - i + 1]]
    IN  [sr EXCEPT !.st = SubSeq(sr.st, 1, k - 1),
                   !.mem = [v \in DOMAIN @ |-> IF SeqHas(comp, v) THEN FALSE ELSE @[v]],
                   !.cc = Append(@, comp)]

RECURSIVE SccVisit(_, _, _)
RECURSIVE SccSuccessors(_, _, _, _)

\* the loop `for v in self.G[u]` of _scc, from position i on
SccSuccessors(G, u, i, sr) ==
    LET vs == DictGet(G, u)
    IN  IF sr.err # "none" \/ i > Len(vs) THEN sr
        ELSE LET v == vs[i]
             IN  IF ~DictHas(G, v) THEN [sr EXCEPT !.err = "KeyError"]
                 ELSE IF sr.disc[v] < 0
                      THEN LET s1 == SccVisit(G, v, sr)
                           IN  IF s1.err # "none" THEN s1
                               ELSE SccSuccessors(G, u, i + 1,
                                       [s1 EXCEPT !.low[u] = Min(@, s1.low[v])])
                      ELSE IF sr.mem[v]
                           THEN SccSuccessors(G, u, i + 1,
                                   [sr EXCEPT !.low[u] = Min(@, sr.disc[v])])
                           ELSE SccSuccessors(G, u, i + 1, sr)

\* Graph._scc(u, low, disc, mem, st)
SccVisit(G, u, sr) ==
    LET s0 == [sr EXCEPT !.disc[u] = sr.t, !.low[u] = sr.t, !.mem[u] = TRUE,
                         !.st = Append(@, u), !.t = @ + 1]
        s1 == SccSuccessors(G, u, 1, s0)
    IN  IF s1.err # "none" THEN s1
        ELSE IF s1.low[u] = s1.disc[u] THEN PopComponent(s1, u)
        ELSE s1

RECURSIVE SccRoots(_, _, _)
\* the loop `for v in self.G` of scc, from position i on
SccRoots(G, i, sr) ==
    IF sr.err # "none" \/ i > Len(G) THEN sr
    ELSE LET v == G[i][1]
         IN  SccRoots(G, i + 1, IF sr.disc[v] < 0 THEN SccVisit(G, v, sr) ELSE sr)

\* Graph.scc(): [err, g]; g carries the cache after the call
scc(g) ==
    IF g.cc.valid THEN [err |-> "none", g |-> g]
    ELSE LET V == DictKeys(g.G)
             sr == SccRoots(g.G, 1,
                      [t |-> 0, low |-> [v \in V |-> -1], disc |-> [v \in V |-> -1],
                       mem |-> [v \in V |-> FALSE], st |-> << >>, cc |-> << >>,
                       err |-> "none"])
         IN  [err |-> sr.err, g |-> [g EXCEPT !.cc = [valid |-> TRUE, comps |-> sr.cc]]]

\* Graph.cyclic(): [err, val, g]
cyclic(g) ==
    LET c == scc(g)
    IN  [err |-> c.err,
         val |-> c.err = "none" /\ Len(c.g.cc.comps) < Len(c.g.G),
         g |-> c.g]

-----------------------------------------------------------------------------
(* Graph.path: the outcome is [kind, p] with kind "none" (None returned),   *)
(* "path" (the list p returned) or "KeyError" (raised by `bfs[w]` after     *)
(* `del bfs[w]`, when w occurs twice among the successors of u).            *)

NoPath == [kind |-> "none", p |-> << >>]
APath(p) == [kind |-> "path", p |-> p]
PathKeyError == [kind |-> "KeyError", p |-> << >>]

\* a step that returns the sub-path without the node it was found from
PrependNothing(u, p) == p

\* `[u] + bfs[w]`
Prepend(u, p) == <<u>> \o p

RECURSIVE PathLoop(_, _, _, _, _, _)
\* the loop `for w in self.G[u]` of path, from position i on; subs[i] is
\* bfs[ws[i]], deleted the keys removed from bfs so far, p the best so far
PathLoop(u, ws, subs, i, deleted, p) ==
    IF i > Len(ws) THEN p
    ELSE IF ws[i] \in deleted THEN PathKeyError
    ELSE LET b == subs[i]
         IN  IF b.kind = "none" \/ Len(b.p) < 2
             THEN PathLoop(u, ws, subs, i + 1, deleted \cup {ws[i]}, p)
             ELSE IF Len(b.p) = 2 THEN APath(Prepend(u, b.p))
             ELSE IF p.kind = "none" \/ Len(b.p) < Len(p.p)
                  THEN PathLoop(u, ws, subs, i + 1, deleted, APath(Prepend(u, b.p)))
                  ELSE PathLoop(u, ws, subs, i + 1, deleted, p)

RECURSIVE PathFrom(_, _, _, _)
\* Graph.path(u, v, head) on the adjacency dict G
PathFrom(G, u, v, head) ==
    IF u = PyNone \/ v = PyNone THEN NoPath
    ELSE IF ~DictHas(G, u) \/ ~DictHas(G, v) THEN NoPath
    ELSE IF SeqHas(DictGet(G, u), v) THEN APath(<<u, v>>)
    ELSE IF SeqHas(head, u) THEN APath(<<u>>)
    ELSE LET ws == DictGet(G, u)
             subs == [i \in 1..Len(ws) |-> PathFrom(G, ws[i], v, Append(head, u))]
         IN  IF \E i \in 1..Len(ws) : subs[i].kind = "KeyError" THEN PathKeyError
             ELSE PathLoop(u, ws, subs, 1, {}, NoPath)

\* Graph.path(u, v)
path(g, u, v) == PathFrom(g.G, u, v, << >>)

\* the orders in which the elements of a set may be met
Orders(S) ==
    {f \in [1..Cardinality(S) -> S] : \A i, j \in 1..Cardinality(S) : i # j => f[i] # f[j]}

RECURSIVE AddReversed(_, _)
AddReversed(g, es) ==
    IF es = << >> THEN g
    ELSE AddReversed(GraphAdd(g, Head(es)[2], Head(es)[1]), Tail(es))

\* Graph.reverse(): a new graph with the edges of edges() flipped, added in
\* the iteration order of that set, which is any order
reverse(g) == {AddReversed(EmptyGraph, es) : es \in Orders(GraphEdges(g))}

-----------------------------------------------------------------------------
(* Coordinator: registry *)

\* `step in self` for a name
Contains(st, n) == DictHas(st, n)

RECURSIVE AddEdges(_, _, _)
\* the loop of Coordinator.add: one edge (dependency -> step) per entry
AddEdges(g, deps, n) ==
    IF deps = << >> THEN g
    ELSE AddEdges(GraphAdd(g, Head(deps)[1], n), Tail(deps), n)

\* an add that replaces a registered step of the same name
CoordAddOverwrite(st, g, s) ==
    [err |-> "none",
     steps |-> DictSet(st, s.name, s),
     dag |-> AddEdges(g, s.depends_on, s.name)]

\* Coordinator.add(step): [err, steps, dag]
CoordAdd(st, g, s) ==
    IF Contains(st, s.name)
    THEN [err |-> "StepNameConflict", steps |-> st, dag |-> g]
    ELSE [err |-> "none",
          steps |-> DictSet(st, s.name, s),
          dag |-> AddEdges(g, s.depends_on, s.name)]

\* Coordinator.remove(name): [steps, dag]
CoordRemove(st, g, n) ==
    [steps |-> IF Contains(st, n) THEN DictPop(st, n) ELSE st,
     dag |-> GraphRemove(g, n, PyNone)]

RECURSIVE DepKeys(_)
\* the union of the depends_on keys over all steps
DepKeys(st) ==
    IF st = << >> THEN {}
    ELSE DictKeys(Head(st)[2].depends_on) \cup DepKeys(Tail(st))

\* Coordinator.intermediates(verify): [err, v].  set.remove raises KeyError
\* when the element is absent.
intermediates(st, vfy) ==
    LET v0 == DepKeys(st)
        v == v0 \ {Root}
    IN  IF Root \notin v0 THEN [err |-> "KeyError", v |-> {}]
        ELSE IF vfy /\ Cardinality(v \cap DictKeys(st)) < Cardinality(v)
             THEN [err |-> "UndefinedDependency", v |-> {}]
             ELSE [err |-> "none", v |-> v]

\* Coordinator.leaves(): [err, v]
leaves(st) ==
    IF st = << >> THEN [err |-> "none", v |-> {}]
    ELSE LET im == intermediates(st, FALSE)
         IN  IF im.err # "none" THEN [err |-> im.err, v |-> {}]
             ELSE [err |-> "none", v |-> DictKeys(st) \ im.v]

\* Coordinator.verify(params): the error raised, "none" when it returns
verify(st, params) ==
    LET im == intermediates(st, TRUE)
    IN  IF im.err # "none" THEN im.err
        ELSE IF params # << >> /\ (DictKeys(params) \cap DictKeys(st)) # {}
             THEN "AmbiguousParameter"
             ELSE "none"

-----------------------------------------------------------------------------
(* Step.execute *)

DeclType(it, k) == DictGet(it, k)

RECURSIVE MergeParamsAll(_, _, _)
\* an update without the `if p in intypes` filter
MergeParamsAll(kw, params, it) ==
    IF params = << >> THEN kw
    ELSE MergeParamsAll(DictSet(kw, Head(params)[1], Head(params)[2]), Tail(params), it)

RECURSIVE MergeParams(_, _, _)
\* kwargs.update({p: v for p, v in _params.items() if p in intypes})
MergeParams(kw, params, it) ==
    IF params = << >> THEN kw
    ELSE LET p == Head(params)[1]
             x == Head(params)[2]
         IN  MergeParams(IF DictHas(it, p) THEN DictSet(kw, p, x) ELSE kw,
                         Tail(params), it)

\* a type test that accepts anything for a Union/Optional annotation
TypeOkLoose(ty, x) ==
    IF ty.union THEN TRUE
    ELSE \A a \in ty.alts : TypeOf(x) = a

\* the type test of one present argument
TypeOk(ty, x) ==
    IF ty.union THEN TypeOf(x) \in ty.alts
    ELSE \A a \in ty.alts : TypeOf(x) = a

RECURSIVE CheckArgs(_, _, _)
\* the loop `for k in kwargs`: [err, it], it being intypes after the pops
CheckArgs(kw, i, it) ==
    IF i > Len(kw) THEN [err |-> "none", it |-> it]
    ELSE LET k == kw[i][1]
         IN  IF ~DictHas(it, k) THEN [err |-> "InvalidArgument", it |-> it]
             ELSE IF ~TypeOk(DeclType(it, k), kw[i][2])
                  THEN [err |-> "TypeMismatch", it |-> it]
                  ELSE CheckArgs(kw, i + 1, DictPop(it, k))

\* a check that takes every missing parameter for a required one
MissingRequiredAny(kw, it) ==
    \E i \in 1..Len(it) : ~DictHas(kw, it[i][1])

\* the loop `for k in intypes` over what is left: is a required one missing
MissingRequired(kw, it) ==
    \E i \in 1..Len(it) :
        /\ ~DictHas(kw, it[i][1])
        /\ ~(it[i][2].union /\ "none" \in it[i][2].alts)

\* Step.execute(**kwargs) with kwargs['_params'] = params:
\* [ok, val, err, invoked, kw]; kw is what the executor is called with
execute(s, kwargs, params) ==
    LET it == consumes(s.func)
        kw == MergeParams(kwargs, params, it)
        chk == CheckArgs(kw, 1, it)
    IN  IF chk.err # "none"
        THEN [ok |-> FALSE, val |-> NoneV, err |-> chk.err, invoked |-> FALSE, kw |-> kw]
        ELSE IF MissingRequired(kw, chk.it)
             THEN [ok |-> FALSE, val |-> NoneV, err |-> "MissingArgument",
                   invoked |-> FALSE, kw |-> kw]
             ELSE LET c == CallFunc(s.func, kw)
                  IN  [ok |-> c.ok, val |-> c.val, err |-> c.err,
                       invoked |-> TRUE, kw |-> kw]

-----------------------------------------------------------------------------
(* Coordinator.launch *)

\* a readiness test that looks at the binding dependencies only
LaunchableBound(s, results) ==
    \A i \in 1..Len(s.depends_on) :
        (s.depends_on[i][1] # Root /\ s.depends_on[i][2] # Gate)
            => DictHas(results, s.depends_on[i][1])

\* a readiness test that takes a None result for a missing one
LaunchableValue(s, results) ==
    \A p \in DictKeys(s.depends_on) \ {Root} :
        DictHas(results, p) /\ DictGet(results, p) # NoneV

\* the readiness test of launch: every non-root dependency has a result
Launchable(s, results) ==
    \A p \in DictKeys(s.depends_on) \ {Root} : DictHas(results, p)

RECURSIVE BuildKwargsAll(_, _, _, _)
\* a comprehension without the `is not None` filter
BuildKwargsAll(deps, source, results, kw) ==
    IF deps = << >> THEN kw
    ELSE LET p == Head(deps)[1]
             arg == Head(deps)[2]
         IN  BuildKwargsAll(Tail(deps), source, results,
                 DictSet(kw, arg, IF p = Root THEN source ELSE DictGet(results, p)))

RECURSIVE BuildKwargsSource(_, _, _, _)
\* a comprehension that binds the payload to every argument
BuildKwargsSource(deps, source, results, kw) ==
    IF deps = << >> THEN kw
    ELSE LET arg == Head(deps)[2]
         IN  BuildKwargsSource(Tail(deps), source, results,
                 IF arg = Gate THEN kw ELSE DictSet(kw, arg, source))

RECURSIVE BuildKwargs(_, _, _, _)
\* the kwargs comprehension of launch (before '_params' is added)
BuildKwargs(deps, source, results, kw) ==
    IF deps = << >> THEN kw
    ELSE LET p == Head(deps)[1]
             arg == Head(deps)[2]
             kw1 == IF arg = Gate THEN kw
                    ELSE DictSet(kw, arg, IF p = Root THEN source ELSE DictGet(results, p))
         IN  BuildKwargs(Tail(deps), source, results, kw1)

-----------------------------------------------------------------------------
(* Coordinator.run *)

NoOut == [ok |-> FALSE, val |-> NoneV, err |-> "none", invoked |-> FALSE, kw |-> << >>]
NoTask == [st |-> "none", kwargs |-> << >>, out |-> NoOut]
NoTasks == [n \in TaskNames |-> NoTask]

IdleRun ==
    [phase |-> "idle", data |-> NoneV, params |-> << >>, started |-> << >>,
     done |-> << >>, results |-> << >>, tasks |-> << >>, finished |-> 0,
     err |-> "none", ret |-> << >>]

\* a launch pass that stops at the first step it starts
ToLaunchFirst(st, loc) ==
    LET all == SelectSeq(KeySeq(st),
                         LAMBDA n : /\ n \in DOMAIN loc.started
                                    /\ ~loc.started[n]
                                    /\ Launchable(DictGet(st, n), loc.results))
    IN  IF all = << >> THEN all ELSE <<Head(all)>>

\* the steps the launch pass starts, in the order it meets them
ToLaunch(st, loc) ==
    SelectSeq(KeySeq(st),
              LAMBDA n : /\ n \in DOMAIN loc.started
                         /\ ~loc.started[n]
                         /\ Launchable(DictGet(st, n), loc.results))

RECURSIVE CompletionPassNoRaise(_, _, _)
\* a completion pass that does not look at t.exception()
CompletionPassNoRaise(ts, tk, loc) ==
    IF ts = << >> THEN loc
    ELSE LET n == Head(ts)
         IN  IF tk[n].st \in {"ok", "failed"}
             THEN CompletionPassNoRaise(Tail(ts), tk,
                     [loc EXCEPT !.done[n] = TRUE,
                                 !.results = DictSet(@, n, tk[n].out.val),
                                 !.finished = @ + 1])
             ELSE CompletionPassNoRaise(Tail(ts), tk, loc)

RECURSIVE CompletionPass(_, _, _)
\* the loop `for t in tasks`; stops at the first task that failed
CompletionPass(ts, tk, loc) ==
    IF ts = << >> THEN loc
    ELSE LET n == Head(ts)
         IN  IF tk[n].st = "failed" THEN [loc EXCEPT !.err = tk[n].out.err]
             ELSE IF tk[n].st = "ok"
                  THEN CompletionPass(Tail(ts), tk,
                          [loc EXCEPT !.done[n] = TRUE,
                                      !.results = DictSet(@, n, tk[n].out.val),
                                      !.finished = @ + 1])
                  ELSE CompletionPass(Tail(ts), tk, loc)

\* `return {s: results[s] for s in self.leaves()}`
Finish(st, loc) ==
    LET lv == leaves(st)
    IN  IF lv.err # "none" THEN [loc EXCEPT !.phase = "raised", !.err = lv.err]
        ELSE [loc EXCEPT !.phase = "returned",
                         !.ret = [n \in lv.v |-> DictGet(loc.results, n)]]

\* an iteration that keeps the completed tasks in the list
LoopBodyNoPrune(st, loc, tk) ==
    LET new == ToLaunch(st, loc)
        newSet == {new[i] : i \in 1..Len(new)}
        tk1 == [n \in TaskNames |->
                  IF n \in newSet
                  THEN [st |-> "pending",
                        kwargs |-> BuildKwargs(DictGet(st, n).depends_on, loc.data,
                                               loc.results, << >>),
                        out |-> NoOut]
                  ELSE tk[n]]
        loc1 == [loc EXCEPT !.tasks = @ \o new,
                            !.started = [n \in DOMAIN @ |-> @[n] \/ n \in newSet]]
        loc2 == CompletionPass(loc1.tasks, tk1, loc1)
        loc3 == loc2
    IN  IF loc2.err # "none"
        THEN [run |-> [loc2 EXCEPT !.phase = "raised"], task |-> tk1]
        ELSE IF loc3.finished = Len(st)
             THEN [run |-> Finish(st, loc3), task |-> tk1]
             ELSE [run |-> [loc3 EXCEPT !.phase = "running"], task |-> tk1]

\* one iteration of the inner loop, up to `await self.sleep()`:
\* [run, task] after the launch pass, the completion pass and the pruning
LoopBody(st, loc, tk) ==
    LET new == ToLaunch(st, loc)
        newSet == {new[i] : i \in 1..Len(new)}
        tk1 == [n \in TaskNames |->
                  IF n \in newSet
                  THEN [st |-> "pending",
                        kwargs |-> BuildKwargs(DictGet(st, n).depends_on, loc.data,
                                               loc.results, << >>),
                        out |-> NoOut]
                  ELSE tk[n]]
        loc1 == [loc EXCEPT !.tasks = @ \o new,
                            !.started = [n \in DOMAIN @ |-> @[n] \/ n \in newSet]]
        loc2 == CompletionPass(loc1.tasks, tk1, loc1)
        loc3 == [loc2 EXCEPT !.tasks = SelectSeq(@, LAMBDA n : ~loc2.done[n])]
    IN  IF loc2.err # "none"
        THEN [run |-> [loc2 EXCEPT !.phase = "raised"], task |-> tk1]
        ELSE IF loc3.finished = Len(st)
             THEN [run |-> Finish(st, loc3), task |-> tk1]
             ELSE [run |-> [loc3 EXCEPT !.phase = "running"], task |-> tk1]

\* the locals of run after verification
FreshRun(st, data, params) ==
    [IdleRun EXCEPT !.data = data, !.params = params,
                    !.started = [n \in DictKeys(st) |-> FALSE],
                    !.done = [n \in DictKeys(st) |-> FALSE]]

-----------------------------------------------------------------------------
(* The state machine *)

Call(op, e, n, params) == [op |-> op, err |-> e, name |-> n, params |-> params]

\* Coordinator(): coordinator.py names Graph without importing it; Graph is
\* taken to be coordinator.graphs.Graph, as the constructor intends.
Init ==
    /\ steps = << >>
    /\ dag = GraphAdd(EmptyGraph, Root, PyNone)
    /\ verified = FALSE
    /\ run = [r \in RunIds |-> IdleRun]
    /\ task = [r \in RunIds |-> NoTasks]
    /\ last = Call("none", "none", "", << >>)

\* the registry is mutated only outside of any run
NoRun == \A r \in RunIds : run[r].phase = "idle"

\* C.add(s)
Add(s) ==
    /\ NoRun
    /\ LET a == CoordAdd(steps, dag, s)
       IN  /\ steps' = a.steps
           /\ dag' = a.dag
           /\ last' = Call("add", a.err, s.name, << >>)
    /\ UNCHANGED <<verified, run, task>>

\* C.remove(n)
Remove(n) ==
    /\ NoRun
    /\ LET a == CoordRemove(steps, dag, n)
       IN  /\ steps' = a.steps
           /\ dag' = a.dag
    /\ last' = Call("remove", "none", n, << >>)
    /\ UNCHANGED <<verified, run, task>>

\* C.verify(params), called directly
Verify(params) ==
    /\ NoRun
    /\ LET e == verify(steps, params)
       IN  /\ verified' = (verified \/ e = "none")
           /\ last' = Call("verify", e, "", params)
    /\ UNCHANGED <<steps, dag, run, task>>

\* C.run(data, params) up to its first await, or to its end
RunStart(r, data, params) ==
    /\ run[r].phase = "idle"
    /\ last' = Call("run", "none", "", << >>)
    /\ UNCHANGED <<steps, dag>>
    /\ LET e == IF verified THEN "none" ELSE verify(steps, params)
           loc == FreshRun(steps, data, params)
       IN  IF e # "none"
           THEN /\ run' = [run EXCEPT ![r] = [loc EXCEPT !.phase = "raised", !.err = e]]
                /\ UNCHANGED <<verified, task>>
           ELSE /\ verified' = TRUE
                /\ IF Len(steps) = 0
                   THEN /\ run' = [run EXCEPT ![r] = Finish(steps, loc)]
                        /\ UNCHANGED task
                   ELSE LET b == LoopBody(steps, loc, task[r])
                        IN  /\ run' = [run EXCEPT ![r] = b.run]
                            /\ task' = [task EXCEPT ![r] = b.task]

\* run resumes from `await self.sleep()` and goes round the inner loop once
Pass(r) ==
    /\ run[r].phase = "running"
    /\ LET b == LoopBody(steps, run[r], task[r])
       IN  /\ run' = [run EXCEPT ![r] = b.run]
           /\ task' = [task EXCEPT ![r] = b.task]
    /\ UNCHANGED <<steps, dag, verified, last>>

\* a task that takes the arguments built for step n in run 1, whichever run
\* started it
TaskRunFirstArgs(r, n) ==
    /\ run[r].phase = "running"
    /\ task[r][n].st = "pending"
    /\ LET o == execute(DictGet(steps, n), task[1][n].kwargs, run[r].params)
       IN  task' = [task EXCEPT ![r][n] =
                      [@ EXCEPT !.st = IF o.ok THEN "ok" ELSE "failed", !.out = o]]
    /\ UNCHANGED <<steps, dag, verified, run, last>>

\* the event loop runs the task of step n of run r: step.execute(**kwargs).
\* Tasks orphaned by a run that raised are not followed: they touch no
\* state of the Coordinator.
TaskRun(r, n) ==
    /\ run[r].phase = "running"
    /\ task[r][n].st = "pending"
    /\ LET o == execute(DictGet(steps, n), task[r][n].kwargs, run[r].params)
       IN  task' = [task EXCEPT ![r][n] =
                      [@ EXCEPT !.st = IF o.ok THEN "ok" ELSE "failed", !.out = o]]
    /\ UNCHANGED <<steps, dag, verified, run, last>>

\* the caller of run receives its result or its failure; the locals are gone
Collect(r) ==
    /\ run[r].phase \in {"returned", "raised"}
    /\ run' = [run EXCEPT ![r] = IdleRun]
    /\ task' = [task EXCEPT ![r] = NoTasks]
    /\ UNCHANGED <<steps, dag, verified, last>>

AddSome == \E s \in EditCatalog : Add(s)
RemoveSome == \E n \in StepNames \cup {Root} : Remove(n)
VerifySome == \E p \in ParamChoices : Verify(p)
RunStartOne == \E d \in Payloads, p \in ParamChoices : RunStart(1, d, p)
PassOne == Pass(1)
TaskRunOne == \E n \in TaskNames : TaskRun(1, n)
CollectOne == Collect(1)

\* one run at a time
Next ==
    \/ AddSome
    \/ RemoveSome
    \/ VerifySome
    \/ RunStartOne
    \/ PassOne
    \/ TaskRunOne
    \/ CollectOne

Spec == Init /\ [][Next]_vars

-----------------------------------------------------------------------------
(* Runs over a registry that is no longer edited: the Coordinator has been *)
(* built by a sequence of add calls and is then only verified and run.     *)

RECURSIVE Built(_, _, _)
\* the registry and graph after adding the steps of seq in order
Built(seq, st, g) ==
    IF seq = << >> THEN [steps |-> st, dag |-> g]
    ELSE LET a == CoordAdd(st, g, Head(seq))
         IN  Built(Tail(seq), a.steps, a.dag)

AddSequences ==
    {seq \in UNION {[1..k -> StepCatalog] : k \in 0..MaxSteps} :
        \A i, j \in 1..Len(seq) : i # j => seq[i].name # seq[j].name}

InitRun ==
    /\ \E seq \in AddSequences :
          LET b == Built(seq, << >>, GraphAdd(EmptyGraph, Root, PyNone))
          IN  steps = b.steps /\ dag = b.dag
    /\ verified = FALSE
    /\ run = [r \in RunIds |-> IdleRun]
    /\ task = [r \in RunIds |-> NoTasks]
    /\ last = Call("none", "none", "", << >>)

NextRun ==
    \/ VerifySome
    \/ RunStartOne
    \/ PassOne
    \/ TaskRunOne
    \/ CollectOne

SpecRun == InitRun /\ [][NextRun]_vars

\* the event loop keeps running what is ready: the run after its sleep, and
\* the created tasks
FairRun == WF_vars(PassOne) /\ WF_vars(TaskRunOne)

\* registries with a step whose executor returns None (f_aio_http), alone, as
\* a binding dependency and as a gate-only dependency (test_wait_async)
NoneSequences ==
    { << MkStep("t1", "f_aio_http", << <<Root, "msg">> >>) >>,
      << MkStep("t1", "f_aio_http", << <<Root, "msg">> >>),
         MkStep("t2", "f_int_to_int", << <<"t1", "msg">> >>) >>,
      << MkStep("t1", "f_aio_http", << <<Root, "msg">> >>),
         MkStep("t2", "f_add", << <<"t1", "a">>, <<Root, "i">> >>) >>,
      << MkStep("t0", "f_add", << <<Root, "i">> >>),
         MkStep("t1", "f_aio_http", << <<Root, "msg">> >>),
         MkStep("t2", "f_int_to_int", << <<"t0", "msg">>, <<"t1", Gate>> >>) >>,
      << MkStep("t2", "f_int_to_int", << <<"t0", "msg">>, <<"t1", Gate>> >>),
         MkStep("t1", "f_aio_http", << <<"t0", "msg">> >>),
         MkStep("t0", "f_add", << <<Root, "i">> >>) >> }

InitNone ==
    /\ \E seq \in NoneSequences :
          LET b == Built(seq, << >>, GraphAdd(EmptyGraph, Root, PyNone))
          IN  steps = b.steps /\ dag = b.dag
    /\ verified = FALSE
    /\ run = [r \in RunIds |-> IdleRun]
    /\ task = [r \in RunIds |-> NoTasks]
    /\ last = Call("none", "none", "", << >>)

SpecNone == InitNone /\ [][NextRun]_vars /\ FairRun

-----------------------------------------------------------------------------
(* Concurrent runs: asyncio.gather(C.run(..), C.run(..)) on one Coordinator. *)
(* Every run id may be in flight; the segments of the runs and the step     *)
(* tasks interleave in any order.                                           *)

ConcSequences ==
    { << MkStep("t0", "f_add", << <<Root, "i">> >>) >>,
      << MkStep("t0", "f_add", << <<Root, "i">> >>),
         MkStep("t1", "f_add", << <<"t0", "i">> >>) >>,
      << MkStep("t1", "f_add", << <<"t0", "i">> >>),
         MkStep("t0", "f_add", << <<Root, "i">> >>) >> }

\* the payloads of test_multiple, and one the first step rejects
ConcPayloads == {IntV(2), IntV(1), StrV(0)}

ConcParams ==
    { << >>,
      << <<"t0", IntV(0)>> >> }

InitConc ==
    /\ \E seq \in ConcSequences :
          LET b == Built(seq, << >>, GraphAdd(EmptyGraph, Root, PyNone))
          IN  steps = b.steps /\ dag = b.dag
    /\ verified = FALSE
    /\ run = [r \in RunIds |-> IdleRun]
    /\ task = [r \in RunIds |-> NoTasks]
    /\ last = Call("none", "none", "", << >>)

RunStartAny == \E r \in RunIds, d \in ConcPayloads, p \in ConcParams : RunStart(r, d, p)
PassAny == \E r \in RunIds : Pass(r)
TaskRunAny == \E r \in RunIds, n \in TaskNames : TaskRun(r, n)
CollectAny == \E r \in RunIds : Collect(r)

NextConc ==
    \/ RunStartAny
    \/ PassAny
    \/ TaskRunAny
    \/ CollectAny

SpecConc == InitConc /\ [][NextConc]_vars

-----------------------------------------------------------------------------
(* test_sum_ok: a chain t0 .. t4 of f_add steps, t0 on the payload and each *)
(* later step on its predecessor, run over a payload and parameters.        *)

ChainSteps ==
    [i \in 1..Len(ChainNames) |->
        MkStep(ChainNames[i], "f_add",
               << <<IF i = 1 THEN Root ELSE ChainNames[i-1], "i">> >>)]

InitChain ==
    /\ LET b == Built(ChainSteps, << >>, GraphAdd(EmptyGraph, Root, PyNone))
       IN  steps = b.steps /\ dag = b.dag
    /\ verified = FALSE
    /\ run = [r \in RunIds |-> IdleRun]
    /\ task = [r \in RunIds |-> NoTasks]
    /\ last = Call("none", "none", "", << >>)

NextChain ==
    \/ VerifySome
    \/ RunStartOne
    \/ PassOne
    \/ TaskRunOne
    \/ CollectOne

SpecChain == InitChain /\ [][NextChain]_vars

-----------------------------------------------------------------------------
(* A Graph used on its own (tests_graphs.py): nodes and edges are added and *)
(* removed in any order, the same edge possibly more than once, and scc,    *)
(* cyclic and reverse are called in between.  last holds the last query and *)
(* what it returned; a mutation clears it.                                  *)

GraphNames == StepNames

GCall(op, e, u, v, val, p) ==
    [op |-> op, err |-> e, name |-> u, params |-> << >>, to |-> v, val |-> val, p |-> p]

NoQuery == GCall("none", "none", PyNone, PyNone, FALSE, << >>)

RECURSIVE EdgeCount(_)
EdgeCount(G) == IF G = << >> THEN 0 ELSE Len(Head(G)[2]) + EdgeCount(Tail(G))

InitGraph ==
    /\ dag = EmptyGraph
    /\ last = NoQuery
    /\ steps = << >>
    /\ verified = FALSE
    /\ run = [r \in RunIds |-> IdleRun]
    /\ task = [r \in RunIds |-> NoTasks]

\* g.add(u)
GAddNode(u) ==
    /\ dag' = GraphAdd(dag, u, PyNone)
    /\ last' = NoQuery
    /\ UNCHANGED <<steps, verified, run, task>>

\* g.add(u, v)
GAddEdge(u, v) ==
    /\ EdgeCount(dag.G) < MaxEdges
    /\ dag' = GraphAdd(dag, u, v)
    /\ last' = NoQuery
    /\ UNCHANGED <<steps, verified, run, task>>

\* g.remove(u)
GRemoveNode(u) ==
    /\ dag' = GraphRemove(dag, u, PyNone)
    /\ last' = NoQuery
    /\ UNCHANGED <<steps, verified, run, task>>

\* g.remove(u, v)
GRemoveEdge(u, v) ==
    /\ dag' = GraphRemove(dag, u, v)
    /\ last' = NoQuery
    /\ UNCHANGED <<steps, verified, run, task>>

\* g = g.reverse()
GReverse ==
    /\ dag' \in reverse(dag)
    /\ last' = NoQuery
    /\ UNCHANGED <<steps, verified, run, task>>

\* g.scc()
GScc ==
    /\ LET c == scc(dag)
       IN  /\ dag' = c.g
           /\ last' = GCall("scc", c.err, PyNone, PyNone, FALSE, << >>)
    /\ UNCHANGED <<steps, verified, run, task>>

\* g.cyclic()
GCyclic ==
    /\ LET c == cyclic(dag)
       IN  /\ dag' = c.g
           /\ last' = GCall("cyclic", c.err, PyNone, PyNone, c.val, << >>)
    /\ UNCHANGED <<steps, verified, run, task>>

\* g.path(u, v)
GPath(u, v) ==
    /\ LET r == path(dag, u, v)
       IN  last' = GCall("path", IF r.kind = "KeyError" THEN "KeyError" ELSE "none",
                         u, v, r.kind = "path", r.p)
    /\ UNCHANGED <<dag, steps, verified, run, task>>

GAddNodeSome == \E u \in GraphNames : GAddNode(u)
GAddEdgeSome == \E u, v \in GraphNames : GAddEdge(u, v)
GRemoveNodeSome == \E u \in GraphNames : GRemoveNode(u)
GRemoveEdgeSome == \E u, v \in GraphNames : GRemoveEdge(u, v)

NextGraph ==
    \/ GAddNodeSome
    \/ GAddEdgeSome
    \/ GRemoveNodeSome
    \/ GRemoveEdgeSome
    \/ GReverse
    \/ GScc
    \/ GCyclic

SpecGraph == InitGraph /\ [][NextGraph]_vars

-----------------------------------------------------------------------------
(* Path queries (run_tests of tests_graphs.py): a graph is built from a     *)
(* list of edges, as Graph(edges=..) and chained add calls do, and path is  *)
(* called for pairs of names, on the graph, on its reverse and on what is   *)
(* left of it when nodes are removed.  The graphs                           *)
(* are those of every edge list of up to MaxEdges edges over GraphNames,    *)
(* the same edge possibly repeated, and those of three longer lists: the    *)
(* graphs of test_1/test_2 and test_3, and one where two routes of equal    *)
(* length lead to the target.                                               *)

N(i) == ChainNames[i + 1]
GNodesOf(g) == DictKeys(g.G)

RECURSIVE FromEdges(_, _)
\* Graph(edges=es): the edges added in order
FromEdges(g, es) ==
    IF es = << >> THEN g
    ELSE FromEdges(GraphAdd(g, Head(es)[1], Head(es)[2]), Tail(es))

SmallEdgeLists == UNION {[1..k -> GraphNames \X GraphNames] : k \in 0..MaxEdges}

TestEdgeLists ==
    { << <<N(1), N(0)>>, <<N(0), N(2)>>, <<N(2), N(1)>>, <<N(0), N(3)>>, <<N(3), N(4)>> >>,
      << <<N(0), N(1)>>, <<N(1), N(2)>>, <<N(2), N(3)>> >>,
      << <<N(0), N(1)>>, <<N(0), N(2)>>, <<N(1), N(3)>>, <<N(2), N(3)>>, <<N(3), N(4)>> >> }

PathGraphs == {FromEdges(EmptyGraph, es) : es \in SmallEdgeLists \cup TestEdgeLists}

InitPath ==
    /\ dag \in PathGraphs
    /\ last = NoQuery
    /\ steps = << >>
    /\ verified = FALSE
    /\ run = [r \in RunIds |-> IdleRun]
    /\ task = [r \in RunIds |-> NoTasks]

\* path does not change the graph: each query is followed from a graph as
\* built or reversed, not from the result of another query
GPathSome == last = NoQuery /\ \E u, v \in TaskNames : GPath(u, v)
GReverseSome == last = NoQuery /\ GReverse
\* a node of the graph is removed before the queries
GTrimSome == last = NoQuery /\ \E u \in GNodesOf(dag) : GRemoveNode(u)

NextPath ==
    \/ GPathSome
    \/ GReverseSome
    \/ GTrimSome

SpecPath == InitPath /\ [][NextPath]_vars

-----------------------------------------------------------------------------
(* Vocabulary of the properties *)

Registered == DictKeys(steps)
DepsOf(n) == DictKeys(DictGet(steps, n).depends_on)

\* dependency edges between registered steps
StepEdges == {e \in Registered \X Registered : e[1] \in DepsOf(e[2])}

RECURSIVE ReachFrom(_, _)
\* the nodes reachable from the set S along one or more StepEdges
ReachFrom(S, seen) ==
    LET nxt == {e[2] : e \in {d \in StepEdges : d[1] \in S}} \ seen
    IN  IF nxt = {} THEN seen ELSE ReachFrom(nxt, seen \cup nxt)

HasCycle == \E n \in Registered : n \in ReachFrom({n}, {})

\* some step names a non-root dependency that is not registered
HasUndefined == \E n \in Registered : (DepsOf(n) \ {Root}) \ Registered # {}

Collides(params) == DictKeys(params) \cap Registered # {}

\* acyclic, no undefined dependency, no parameter/step-name collision
ValidFor(params) == ~HasCycle /\ ~HasUndefined /\ ~Collides(params)

LeafSteps == {n \in Registered : \A m \in Registered : n \notin DepsOf(m)}

Launched(r) == {n \in TaskNames : task[r][n].st # "none"}
Executed(r) == {n \in TaskNames : task[r][n].st \in {"ok", "failed"}}
FailedTasks(r) == {n \in TaskNames : task[r][n].st = "failed"}

-----------------------------------------------------------------------------
(* Properties *)

\* C1: in every run, a step whose task has been created has every non-root
\* name of its dependency map recorded in that run's result map.
C1_StartAfterDeps ==
    \A r \in RunIds : \A n \in Launched(r) :
        \A p \in DepsOf(n) \ {Root} : DictHas(run[r].results, p)

\* a step with two upstream steps has been started
C1_Witness ==
    \E r \in RunIds : \E n \in Launched(r) :
        /\ Cardinality(DepsOf(n) \ {Root}) >= 2
        /\ \A p \in DepsOf(n) \ {Root} : task[r][p].st = "ok"

\* some step names the root as a dependency
RootNamed == \E n \in Registered : Root \in DepsOf(n)

\* C2: on a graph with a cycle among registered steps, verify fails with
\* CyclicGraph, and so does run, instead of executing or waiting.
C2_CycleRejected ==
    /\ (last.op = "verify" /\ HasCycle /\ ~HasUndefined /\ RootNamed)
          => last.err = "CyclicGraph"
    /\ \A r \in RunIds :
          (run[r].phase # "idle" /\ HasCycle /\ ~HasUndefined /\ RootNamed)
             => (run[r].phase = "raised" /\ run[r].err = "CyclicGraph")

\* C3: verify of a non-empty valid registry (acyclic, no undefined
\* dependency, no parameter/step-name collision) raises nothing and marks the
\* Coordinator verified, also when no step names the root.
C3_ValidVerifies ==
    (last.op = "verify" /\ Len(steps) > 0 /\ ValidFor(last.params))
        => (last.err = "none" /\ verified)

\* C4: a run over a non-empty valid registry none of whose step executions
\* failed ends by returning a map whose keys are exactly the leaf steps, each
\* with that step's result.
C4_ReturnsLeaves ==
    \A r \in RunIds :
        (/\ run[r].phase \in {"returned", "raised"}
         /\ Len(steps) > 0
         /\ ValidFor(run[r].params)
         /\ FailedTasks(r) = {})
        => (/\ run[r].phase = "returned"
            /\ DOMAIN run[r].ret = LeafSteps
            /\ \A n \in LeafSteps : run[r].ret[n] = task[r][n].out.val)

\* C5: while some step names an unregistered non-root dependency, verify
\* fails with UndefinedDependency, and a run fails the same way and starts
\* no step.
C5_UndefinedRejected ==
    /\ (last.op = "verify" /\ HasUndefined) => last.err = "UndefinedDependency"
    /\ \A r \in RunIds :
          (run[r].phase # "idle" /\ HasUndefined)
             => (/\ run[r].phase = "raised"
                 /\ run[r].err = "UndefinedDependency"
                 /\ Launched(r) = {})

\* C6: verify(runParams) fails with AmbiguousParameter whenever a key of
\* runParams is the name of a registered step, leaving the Coordinator
\* unverified; a run with such parameters on an unverified Coordinator fails
\* the same way and starts no step.
C6_AmbiguousRejected ==
    /\ (last.op = "verify" /\ Collides(last.params) /\ ~HasUndefined)
          => last.err = "AmbiguousParameter"
    /\ \A r \in RunIds :
          (~verified /\ run[r].phase # "idle" /\ Collides(run[r].params) /\ ~HasUndefined)
             => (/\ run[r].phase = "raised"
                 /\ run[r].err = "AmbiguousParameter"
                 /\ Launched(r) = {})

\* C7: the verified state does not survive a registry mutation, so no run
\* executes steps of a registry that an add or remove left with an undefined
\* dependency: such a run fails verification.
C7_ReverifiedAfterMutation ==
    \A r \in RunIds : run[r].phase \in {"running", "returned"} => ~HasUndefined

\* the first failed task in the order of the in-flight list
FirstFailed(r) ==
    LET ts == run[r].tasks
        j == CHOOSE i \in 1..Len(ts) :
                 /\ task[r][ts[i]].st = "failed"
                 /\ \A h \in 1..(i-1) : task[r][ts[h]].st # "failed"
    IN  ts[j]

\* C8: run is all-or-nothing.  A scheduling step of a run that finds a failed
\* step execution ends the run by raising a failed step's error, with no
\* result map; a run returns a map only when every registered step completed
\* successfully.
C8_AllOrNothing ==
    [][\A r \in RunIds :
          /\ (run[r].phase = "running" /\ FailedTasks(r) # {} /\ run'[r] # run[r])
                => (/\ run'[r].phase = "raised"
                    /\ run'[r].err = task[r][FirstFailed(r)].out.err
                    /\ run'[r].ret = << >>)
          /\ (run'[r].phase = "returned")
                => (\A n \in DictKeys(steps') : task'[r][n].st = "ok" /\ run'[r].done[n])
      ]_vars

\* a run has raised the TypeMismatch of one of its steps
C8_Witness ==
    \E r \in RunIds :
        /\ run[r].phase = "raised"
        /\ FailedTasks(r) # {}
        /\ run[r].err = "TypeMismatch"
        /\ \E n \in TaskNames : task[r][n].st = "ok"

\* C9: the executor is invoked with the bound value of every argument bound
\* from the payload or an upstream result, whatever runParams holds.
C9_BoundNotOverridden ==
    \A r \in RunIds : \A n \in Executed(r) :
        task[r][n].out.invoked =>
            \A k \in DictKeys(task[r][n].kwargs) :
                DictGet(task[r][n].out.kw, k) = DictGet(task[r][n].kwargs, k)

\* the runtime type is neither the declared type nor one of its alternatives
WrongType(ty, x) == TypeOf(x) \notin ty.alts

Declared(n, k) == DictHas(consumes(DictGet(steps, n).func), k)

\* positions of the merged arguments holding a declared, wrongly typed value
MistypedAt(r, n) ==
    LET kw == task[r][n].out.kw
    IN  {i \in 1..Len(kw) :
            /\ Declared(n, kw[i][1])
            /\ WrongType(DictGet(consumes(DictGet(steps, n).func), kw[i][1]), kw[i][2])}

\* positions of the merged arguments whose name is not declared
UndeclaredAt(r, n) ==
    LET kw == task[r][n].out.kw
    IN  {i \in 1..Len(kw) : ~Declared(n, kw[i][1])}

\* C10 as stated: an execution given a wrongly typed argument fails with
\* TypeMismatch without invoking the executor.
C10_Original ==
    \A r \in RunIds : \A n \in Executed(r) :
        MistypedAt(r, n) # {}
            => (task[r][n].st = "failed" /\ ~task[r][n].out.invoked
                /\ task[r][n].out.err = "TypeMismatch")

\* C10: an execution given a wrongly typed argument fails without invoking
\* the executor: with InvalidArgument when an undeclared argument name comes
\* before every wrongly typed one in the merged arguments, with TypeMismatch
\* otherwise; the run does not return, and raises this failure when it is the
\* first failed task of its in-flight list.
C10_TypeMismatch ==
    \A r \in RunIds : \A n \in Executed(r) :
        MistypedAt(r, n) # {}
            => (/\ task[r][n].st = "failed"
                /\ ~task[r][n].out.invoked
                /\ task[r][n].out.err =
                      IF \E u \in UndeclaredAt(r, n) : \A m \in MistypedAt(r, n) : u < m
                      THEN "InvalidArgument" ELSE "TypeMismatch"
                /\ run[r].phase # "returned"
                /\ (run[r].phase = "raised" /\ FirstFailed(r) = n)
                      => run[r].err = task[r][n].out.err)

\* a step fed a wrongly typed upstream result has failed with TypeMismatch,
\* and the run has raised it
C10_Witness ==
    \E r \in RunIds : \E n \in Executed(r) :
        /\ MistypedAt(r, n) # {}
        /\ \E p \in DepsOf(n) \ {Root} : task[r][p].st = "ok"
        /\ task[r][n].out.err = "TypeMismatch"
        /\ run[r].phase = "raised"
        /\ run[r].err = "TypeMismatch"

\* the argument names a step binds: those of its non-gate dependency entries
BoundArgs(n) ==
    LET d == DictGet(steps, n).depends_on
    IN  {d[i][2] : i \in {j \in 1..Len(d) : d[j][2] # Gate}}

\* the upstream steps a step names as gate-only dependencies
GateDeps(n) ==
    LET d == DictGet(steps, n).depends_on
    IN  {d[i][1] : i \in {j \in 1..Len(d) : d[j][2] = Gate}} \ {Root}

RECURSIVE SoloOut(_, _, _)
\* what executing step n yields in a run of its own over data and params:
\* its dependencies evaluated first, in a registry without cycles
SoloOut(n, data, params) ==
    LET s == DictGet(steps, n)
        up == SelectSeq(KeySeq(s.depends_on), LAMBDA p : p # Root)
        res == [i \in 1..Len(up) |-> <<up[i], SoloOut(up[i], data, params).val>>]
    IN  execute(s, BuildKwargs(s.depends_on, data, res, << >>), params)

\* the run-local state of run r is what a run alone over its payload and
\* parameters produces
OwnState(r) ==
    /\ DOMAIN run[r].started = Registered
    /\ \A n \in Executed(r) :
          task[r][n].out = SoloOut(n, run[r].data, run[r].params)
    /\ \A n \in DictKeys(run[r].results) :
          /\ run[r].done[n]
          /\ DictGet(run[r].results, n) = SoloOut(n, run[r].data, run[r].params).val
    /\ run[r].phase = "returned" =>
          run[r].ret = [n \in LeafSteps |-> SoloOut(n, run[r].data, run[r].params).val]
    /\ run[r].phase = "raised" =>
          \E n \in Registered :
              LET o == SoloOut(n, run[r].data, run[r].params)
              IN  ~o.ok /\ run[r].err = o.err

\* a running run has a step of its own to take: one of its tasks is ready
\* to execute, or its next scheduling pass changes its state
CanProceed(r) ==
    \/ \E n \in TaskNames : task[r][n].st = "pending"
    \/ LoopBody(steps, run[r], task[r]).run # run[r]

Bindings(n) ==
    LET d == DictGet(steps, n).depends_on
    IN  {i \in 1..Len(d) :
            d[i][2] # Gate /\ \A j \in (i+1)..Len(d) : d[j][2] # d[i][2]}

\* the last step of the chain
ChainEnd == ChainNames[Len(ChainNames)]

\* C13: the arguments built for a started step hold, under each bound
\* argument name, the payload when the dependency is the root and the stored
\* result of the upstream step otherwise; so the chain t0 .. t4 of f_add
\* steps returns {t4: 5} for run(0) and {t4: 10} for run(0, {a: 2}).
C13_ValuesFlow ==
    \A r \in RunIds :
        /\ \A n \in Launched(r) : \A i \in Bindings(n) :
              LET e == DictGet(steps, n).depends_on[i]
              IN  DictGet(task[r][n].kwargs, e[2]) =
                     IF e[1] = Root THEN run[r].data ELSE task[r][e[1]].out.val
        /\ (run[r].phase = "returned" /\ run[r].data = IntV(0))
              => /\ run[r].params = << >> => run[r].ret = (ChainEnd :> IntV(5))
                 /\ run[r].params = << <<"a", IntV(2)>> >>
                       => run[r].ret = (ChainEnd :> IntV(10))

\* the chain has returned {t4: 10} for run(0, {a: 2})
C13_Witness ==
    \E r \in RunIds :
        /\ run[r].phase = "returned"
        /\ run[r].data = IntV(0)
        /\ run[r].params = << <<"a", IntV(2)>> >>
        /\ run[r].ret = (ChainEnd :> IntV(10))
        /\ task[r][ChainNames[2]].kwargs = << <<"i", IntV(2)>> >>


\* every registry entry is keyed by its step's name, and no name is keyed
\* twice
UniqueNames ==
    \A i, j \in 1..Len(steps) :
        /\ steps[i][1] = steps[i][2].name
        /\ i # j => steps[i][1] # steps[j][1]

\* C14: an add of a step whose name is registered fails with
\* StepNameConflict and leaves the registry and the nodes and edges of the
\* graph as they were; an add of an unregistered name raises no conflict;
\* after any sequence of add and remove calls the registered names are
\* unique.
C14_AddConflict ==
    /\ [][\A s \in EditCatalog :
             Add(s) =>
                IF Contains(steps, s.name)
                THEN /\ last'.err = "StepNameConflict"
                     /\ steps' = steps
                     /\ dag'.G = dag.G
                ELSE /\ last'.err = "none"
                     /\ Contains(steps', s.name)
          ]_vars
    /\ []UniqueNames

\* an add has been refused in a registry of two steps or more
C14_Witness ==
    /\ last.op = "add"
    /\ last.err = "StepNameConflict"
    /\ Contains(steps, last.name)
    /\ Len(steps) >= 2


\* C15: a remove of a name that is not registered (the root, or a name that
\* only occurs as a dependency of some step, included) leaves the registry
\* and the nodes and edges of the graph as they were.
C15_RemoveAbsent ==
    [][\A n \in StepNames \cup {Root} :
          (Remove(n) /\ ~Contains(steps, n)) => (steps' = steps /\ dag'.G = dag.G)
      ]_vars


\* the names of the run parameters of run r that step n does not declare
ExtraParams(r, n) == {p \in DictKeys(run[r].params) : ~Declared(n, p)}

\* no registered step declares a parameter of that name
OnlyExtras(params) == \A p \in DictKeys(params) : \A n \in Registered : ~Declared(n, p)

\* C20: a run parameter that a step does not declare is not passed to it and
\* is never the cause of InvalidArgument; a run all of whose parameters are
\* declared by no step executes every step, and returns, exactly as the run
\* without parameters does.
C20_ExtraParamsIgnored ==
    \A r \in RunIds :
        /\ \A n \in Executed(r) :
              /\ \A p \in ExtraParams(r, n) \ DictKeys(task[r][n].kwargs) :
                    ~DictHas(task[r][n].out.kw, p)
              /\ task[r][n].out.err = "InvalidArgument"
                    => \E k \in DictKeys(task[r][n].kwargs) : ~Declared(n, k)
              /\ OnlyExtras(run[r].params)
                    => task[r][n].out = SoloOut(n, run[r].data, << >>)
        /\ (run[r].phase = "returned" /\ OnlyExtras(run[r].params))
              => run[r].ret = [n \in LeafSteps |-> SoloOut(n, run[r].data, << >>).val]

\* a run over two steps or more, given a parameter no step declares, has
\* returned
C20_Witness ==
    \E r \in RunIds :
        /\ run[r].phase = "returned"
        /\ run[r].params # << >>
        /\ OnlyExtras(run[r].params)
        /\ Len(steps) >= 2
        /\ DOMAIN run[r].ret # {}

-----------------------------------------------------------------------------
(* Properties of Graph *)

\* the nodes and the edges between nodes of the graph
GNodes == DictKeys(dag.G)
GEdges == {e \in GNodes \X GNodes : SeqHas(DictGet(dag.G, e[1]), e[2])}

RECURSIVE GReach(_, _)
\* the nodes reachable from the set S along one or more edges
GReach(S, seen) ==
    LET nxt == {e[2] : e \in {d \in GEdges : d[1] \in S}} \ seen
    IN  IF nxt = {} THEN seen ELSE GReach(nxt, seen \cup nxt)

ReachesItself(n) == n \in GReach({n}, {})
MutuallyReachable(a, b) == a = b \/ (b \in GReach({a}, {}) /\ a \in GReach({b}, {}))

\* the places <<i, j>> of the component list that hold node n
PlacesOf(cs, n) ==
    {q \in UNION {{i} \X (1..Len(cs[i])) : i \in 1..Len(cs)} : cs[q[1]][q[2]] = n}

\* cs is a partition of the nodes into the classes of mutual reachability
SccPartition(cs) ==
    /\ \A i \in 1..Len(cs) : cs[i] # << >> /\ \A j \in 1..Len(cs[i]) : cs[i][j] \in GNodes
    /\ \A n \in GNodes : Cardinality(PlacesOf(cs, n)) = 1
    /\ \A a, b \in GNodes :
          (\E i \in 1..Len(cs) : SeqHas(cs[i], a) /\ SeqHas(cs[i], b))
             <=> MutuallyReachable(a, b)

\* C16: scc() returns a partition of the node set in which two nodes share a
\* component exactly when each is reachable from the other.
C16_SccPartition ==
    last.op = "scc" => (last.err = "none" /\ SccPartition(dag.cc.comps))

\* C17: cyclic() returns True exactly when some node reaches itself along
\* one or more edges.
C17_CyclicIffCycle ==
    last.op = "cyclic" =>
        (last.err = "none" /\ (last.val <=> \E n \in GNodes : ReachesItself(n)))

\* C18: for distinct names n and m, a sequence returned by path(n, m) starts
\* at n, ends at m, and each consecutive pair of it is an edge of the graph,
\* on graphs with cycles and on reversed graphs as well.
C18_PathValid ==
    (last.op = "path" /\ last.val /\ last.name # last.to) =>
        LET p == last.p
        IN  /\ Len(p) >= 2
            /\ p[1] = last.name
            /\ p[Len(p)] = last.to
            /\ \A i \in 1..(Len(p) - 1) :
                  <<p[i], p[i+1]>> \in GEdges /\ is_edge(dag, p[i], p[i+1])

\* path has returned a sequence of four nodes on a graph with a cycle
C18_Witness ==
    /\ last.op = "path" /\ last.val /\ last.name # last.to
    /\ Len(last.p) = 4
    /\ \E n \in GNodes : ReachesItself(n)

\* C19: after remove(u), on a graph reached by any add and remove calls, u
\* is not a node and no successor list holds u.
C19_RemovedEverywhere ==
    [][\A u \in GraphNames :
          GRemoveNode(u) =>
             (/\ ~DictHas(dag'.G, u)
              /\ \A i \in 1..Len(dag'.G) : ~SeqHas(dag'.G[i][2], u))
      ]_vars


-----------------------------------------------------------------------------
(* Further properties of the Coordinator *)

\* every <<u, v>> with v in the successor list of u
EdgeEntries ==
    UNION {{<<dag.G[i][1], dag.G[i][2][j]>> : j \in 1..Len(dag.G[i][2])} : i \in 1..Len(dag.G)}

\* one pair <<upstream name, step name>> per dependency entry
DependencyPairs == UNION {{<<p, n>> : p \in DepsOf(n)} : n \in Registered}

\* C21: after any sequence of add and remove calls every registered step is
\* a node of the graph, and the edges of the graph are exactly the pairs
\* <<upstream name, step name>> of the dependency entries of the registered
\* steps.
C21_LockStep ==
    /\ \A n \in Registered : DictHas(dag.G, n)
    /\ EdgeEntries = DependencyPairs


\* C22: every run given a parameter named like a registered step fails with
\* AmbiguousParameter and starts no step, also when an earlier verify or run
\* has verified the Coordinator with other parameters (the registry being
\* acyclic, with every dependency registered and the root named).
C22_NoAmbiguousRun ==
    \A r \in RunIds :
        (/\ run[r].phase # "idle"
         /\ Collides(run[r].params)
         /\ ~HasUndefined /\ ~HasCycle /\ RootNamed)
        => (/\ run[r].phase = "raised"
            /\ run[r].err = "AmbiguousParameter"
            /\ Launched(r) = {})


\* C23: after any interleaving of add, remove, scc and cyclic calls, the
\* components scc() returns are those a computation from scratch on the
\* current adjacency returns.
C23_CacheFresh ==
    (last.op = "scc" /\ last.err = "none") =>
        LET fresh == scc([dag EXCEPT !.cc = NoCC])
        IN  fresh.err = "none" /\ fresh.g.cc.comps = dag.cc.comps


\* step n of run r has no task and every non-root dependency of it has a
\* recorded result
ReadyUnstarted(r, n) ==
    /\ task[r][n].st = "none"
    /\ \A p \in DepsOf(n) \ {Root} : DictHas(run[r].results, p)

\* this step of the run contains a launch pass: a further round of the inner
\* loop, or the first round of a run that passed verification
LaunchPass(r) ==
    \/ Pass(r)
    \/ run[r].phase = "idle" /\ run'[r].phase = "running"

\* C24: a launch pass starts every step that has no task yet and whose
\* non-root dependencies are all in the result map; the tasks of the steps
\* that were ready together are all in flight after it, none completed.
C24_LaunchAllReady ==
    [][\A r \in RunIds :
          LaunchPass(r) =>
             \A n \in Registered :
                 ReadyUnstarted(r, n) =>
                    (task'[r][n].st = "pending" /\ run'[r].started[n])
      ]_vars

\* two steps that depend on nothing but the root are in flight together
C24_Witness ==
    \E r \in RunIds : \E n, m \in Registered :
        /\ n # m
        /\ DepsOf(n) = {Root} /\ DepsOf(m) = {Root}
        /\ task[r][n].st = "pending" /\ task[r][m].st = "pending"


\* the declared parameters of step n that the merged arguments of its
\* execution in run r leave out and whose type does not admit None
RequiredMissing(r, n) ==
    LET it == consumes(DictGet(steps, n).func)
    IN  {it[i][1] : i \in {j \in 1..Len(it) :
                              /\ ~DictHas(task[r][n].out.kw, it[j][1])
                              /\ "none" \notin it[j][2].alts}}

\* C25 as stated: an execution fails with MissingArgument, the executor not
\* invoked, exactly when a declared parameter that is not optional is missing
\* from the merged arguments.
C25_Original ==
    \A r \in RunIds : \A n \in Executed(r) :
        (task[r][n].out.err = "MissingArgument" /\ ~task[r][n].out.invoked)
            <=> RequiredMissing(r, n) # {}

\* C25: an execution fails with MissingArgument exactly when every merged
\* argument is declared and well typed and a declared parameter that is not
\* optional is missing; the executor is then not invoked.  When every merged
\* argument is declared and well typed and only optional parameters are
\* missing, the executor is invoked.
C25_MissingArgument ==
    \A r \in RunIds : \A n \in Executed(r) :
        LET passed == MistypedAt(r, n) = {} /\ UndeclaredAt(r, n) = {}
        IN  /\ task[r][n].out.err = "MissingArgument"
                  <=> (passed /\ RequiredMissing(r, n) # {})
            /\ task[r][n].out.err = "MissingArgument"
                  => (task[r][n].st = "failed" /\ ~task[r][n].out.invoked)
            /\ (passed /\ RequiredMissing(r, n) = {}) => task[r][n].out.invoked

\* in one run a step missing only its optional parameter has run its
\* executor, a step missing a required one has failed with MissingArgument,
\* and the run has raised it
C25_Witness ==
    \E r \in RunIds : \E n, m \in Executed(r) :
        /\ task[r][m].st = "ok"
        /\ Declared(m, "a") /\ ~DictHas(task[r][m].out.kw, "a")
        /\ RequiredMissing(r, n) # {}
        /\ task[r][n].out.err = "MissingArgument"
        /\ run[r].phase = "raised" /\ run[r].err = "MissingArgument"


\* step p of run r has completed with None and the run has recorded it
NoneRecorded(r, p) ==
    /\ run[r].phase = "running"
    /\ DictHas(run[r].results, p)
    /\ DictGet(run[r].results, p) = NoneV

\* the completion pass of this step records every task of run r that had
\* completed with None before it, unless it raises a failure
RecordsNone(r) ==
    \A n \in Registered :
        (/\ task[r][n].st = "ok" /\ task[r][n].out.val = NoneV
         /\ run'[r].phase \in {"running", "returned"})
        => (/\ run'[r].done[n]
            /\ DictHas(run'[r].results, n)
            /\ DictGet(run'[r].results, n) = NoneV
            /\ run'[r].finished = Cardinality({m \in Registered : run'[r].done[m]}))

\* a step of run r that depends on a step recorded with None, has every
\* non-root dependency recorded, and has no task yet
WaitsOnNone(r) ==
    \E p, m \in Registered :
        /\ NoneRecorded(r, p)
        /\ p \in DepsOf(m)
        /\ \A q \in DepsOf(m) \ {Root} : DictHas(run[r].results, q)
        /\ task[r][m].st = "none"

\* run r is in its loop with a None among its recorded results
LoopsWithNone(r) == ~HasCycle /\ \E p \in Registered : NoneRecorded(r, p)

\* C26: a task that completed with None is recorded by the next completion
\* pass that raises nothing: marked done, its name a key of the result map,
\* counted as finished.  Once it is recorded, every step that depends on it,
\* by a binding or a gate-only entry, and has its other dependencies
\* recorded is started by a later launch pass, and the run ends: it does not
\* stay in its loop for ever.
C26_NoneCompletes ==
    /\ [][\A r \in RunIds : Pass(r) => RecordsNone(r)]_vars
    /\ \A r \in RunIds : WaitsOnNone(r) ~> ~WaitsOnNone(r)
    /\ \A r \in RunIds : LoopsWithNone(r) ~> (run[r].phase # "running")

\* a step that only waits for a step that returned None has been started
\* after the None was recorded
C26_Witness ==
    \E r \in RunIds : \E p, m \in Registered :
        /\ NoneRecorded(r, p)
        /\ p \in GateDeps(m)
        /\ task[r][m].st # "none"


\* C27: for nodes u and v of the graph, path(u, v) with the default head
\* terminates with a result, which is None exactly when v is not reachable
\* from u along one or more edges, and otherwise a sequence of at least two
\* nodes.
C27_PathIffReachable ==
    (last.op = "path" /\ last.name \in GNodes /\ last.to \in GNodes) =>
        /\ last.err = "none"
        /\ last.val <=> last.to \in GReach({last.name}, {})
        /\ last.val => Len(last.p) >= 2


Distinct(q) == \A i, j \in 1..Len(q) : i # j => q[i] # q[j]
DoneSteps(r) == {n \in DOMAIN run[r].done : run[r].done[n]}

\* the locals of run r agree with each other and with its tasks
Bookkeeping(r) ==
    /\ DOMAIN run[r].started = Registered /\ DOMAIN run[r].done = Registered
    /\ \A n \in Registered : run[r].started[n] <=> task[r][n].st # "none"
    /\ \A n \in DoneSteps(r) : run[r].started[n] /\ task[r][n].st = "ok"
    /\ run[r].finished = Cardinality(DoneSteps(r))
    /\ run[r].finished = Len(run[r].results)
    /\ DictKeys(run[r].results) = DoneSteps(r)
    /\ Distinct(run[r].tasks)
    /\ run[r].phase = "running" =>
          {run[r].tasks[i] : i \in 1..Len(run[r].tasks)}
              = {n \in Registered : run[r].started[n] /\ ~run[r].done[n]}

\* within a run a task, once created, is not created again, and a step
\* recorded as done stays recorded with the same result
StartedOnce(r) ==
    run'[r].phase # "idle" =>
        \A n \in TaskNames :
            /\ task[r][n].st # "none" =>
                  (/\ task'[r][n].st # "none"
                   /\ task'[r][n].kwargs = task[r][n].kwargs)
            /\ task[r][n].st \in {"ok", "failed"} => task'[r][n] = task[r][n]
            /\ n \in DoneSteps(r) =>
                  (/\ run'[r].done[n]
                   /\ DictGet(run'[r].results, n) = DictGet(run[r].results, n))

\* C28: in every reachable state of a run each started step has exactly one
\* task, a done step is a started one, the finished counter equals the
\* number of done steps and the number of keys of the result map, whose keys
\* are the done steps, and the in-flight list holds no task twice and, between
\* passes, no completed one that was counted; no step of the run creates a
\* task again or records a step again.
C28_Bookkeeping ==
    /\ [](\A r \in RunIds : run[r].phase # "idle" => Bookkeeping(r))
    /\ [][\A r \in RunIds : StartedOnce(r)]_vars

\* between two passes two steps are recorded and a third is in flight
C28_Witness ==
    \E r \in RunIds :
        /\ run[r].phase = "running"
        /\ run[r].finished >= 2
        /\ \E n \in Registered : task[r][n].st = "pending"


\* C29: once a task of a run has completed with a failure, no step of that
\* run that has no task yet gets one.
C29_NoStartAfterFailure ==
    [][\A r \in RunIds :
          FailedTasks(r) # {} =>
             \A n \in TaskNames :
                 task[r][n].st = "none" => task'[r][n].st = "none"
      ]_vars


=============================================================================
